---- MODULE Spec2Model ----
(***************************************************************************)
(* A model of pre_commit/util.py: the two process runners (cmd_output_b,   *)
(* cmd_output_p), the Pty context manager, rmtree and                      *)
(* clean_path_on_failure.  One call is modelled per behaviour: Init picks  *)
(* the function called and its arguments, the actions are the steps of     *)
(* that call and of the operating system around it.                        *)
(***************************************************************************)
EXTENDS Integers, Sequences, FiniteSets, TLC

\* ------------------------------------------------------------------ bounds
MaxOut == 2        \* longest output a child writes to the pty
ReadSize == 2      \* scaled-down size of one os.read (4096 in the source)
MaxCalls == 3      \* close_w / close_r calls made inside a Pty scope
MaxFiles == 2      \* files in the directory handed to rmtree

\* ------------------------------------------------------ values and helpers
\* Optional[T]: None is the empty set, a present value v is {v}.
None == {}
Some(v) == {v}

Bytes == {"a", "b"}
RECURSIVE SeqsUpTo(_, _)
SeqsUpTo(S, n) ==
    IF n = 0 THEN {<<>>}
    ELSE LET shorter == SeqsUpTo(S, n - 1)
         IN  shorter \cup {Append(s, x) : s \in {t \in shorter : Len(t) = n - 1}, x \in S}

Argvs == {<<"exe">>, <<"exe", "arg">>}
Exes == {"exe", "/bin/exe"}
ExitCodes == {0, 1, 2}
Retcodes == {None} \cup {Some(c) : c \in {0, 1, 2}}
PipeOut == {<<>>, <<"a">>}
PipeErr == {None, Some(<<>>), Some(<<"b">>)}

NoExc == [type |-> "none", args |-> <<>>]
Exc(type, args) == [type |-> type, args |-> args]

VARIABLES
    op,          \* the function of util.py this behaviour calls
    pc,          \* position inside the call
    argv,        \* the command vector the caller passed (*cmd)
    cmd,         \* the local variable cmd (rebound by normalize_cmd)
    retcode,     \* the keyword argument retcode: Optional[int]
    notfound,    \* Some(e.to_output()) once ExecutableNotFoundError was caught
    result,      \* Some(<<returncode, stdout_b, stderr_b>>) once known
    procs,       \* number of OS processes spawned (subprocess.Popen calls that succeeded)
    returned,    \* Some(value) once the call returned normally
    raised,      \* the exception that left the call, NoExc if none
    devnull,     \* open(os.devnull): "unopened", "open" or "closed"
    pty,         \* the Pty object (r, w) and the kernel's view of its descriptors
    calls,       \* names of the Pty methods called inside a Pty scope, in order
    child,       \* the spawned process: state, output still to write, exit code
    ptybuf,      \* bytes written to the pty and not yet read
    written,     \* every byte the child wrote, in order
    buf,         \* the local variable buf of cmd_output_p
    delivered,   \* the chunks os.read returned, in order
    lastRead,    \* how the last os.read ended: "none", "data", "eof", "EIO" or "EBADF"
    env,         \* the platform: what a read of a hung-up pty does, whether reads can fail
    fs0,         \* the file system when the call started
    fs,          \* the file system: the paths that exist, the paths that are read-only
    todo,        \* the operations shutil.rmtree still has to perform, in order
    oslog,       \* every file-system call rmtree made, in order, with its result
    scopeErr     \* the exception the scope wrapped by clean_path_on_failure raised

callVars == <<op, argv, retcode, env, fs0>>
procVars == <<child, ptybuf, written>>
readVars == <<buf, delivered, lastRead>>
runVars == <<cmd, notfound, result, procs, devnull, pty, calls, child, ptybuf, written,
             buf, delivered, lastRead>>
rmVars == <<fs, todo, oslog, scopeErr>>
vars == <<op, pc, argv, cmd, retcode, notfound, result, procs, returned, raised,
          devnull, pty, calls, child, ptybuf, written, buf, delivered, lastRead, env,
          fs0, fs, todo, oslog, scopeErr>>

\* ------------------------------------------------- parse_shebang (external)
\* ExecutableNotFoundError.to_output(): the synthesized (returncode, stdout,
\* stderr) triple; the exit code is the conventional "not found" code.
NotFoundCode == 1
to_output == <<NotFoundCode, <<"a">>, None>>

\* normalize_cmd(cmd): the vectors it may return; it replaces cmd[0] by the
\* resolved executable and keeps the arguments.
normalize_cmd(c) == {<<exe>> \o Tail(c) : exe \in Exes}

\* ------------------------------------------------------------ cmd_output_b
\* B_Normalize with the except branch falling into the spawn.
B_Normalize_Spawns ==
    /\ op = "cmd_output_b" /\ pc = "normalize"
    /\ \/ /\ \E n \in normalize_cmd(cmd) : cmd' = n
          /\ UNCHANGED <<notfound, result>>
       \/ /\ notfound' = Some(to_output)
          /\ result' = Some(to_output)
          /\ UNCHANGED cmd
    /\ pc' = "popen"
    /\ UNCHANGED <<callVars, procs, returned, raised, devnull, pty, calls, procVars, readVars, rmVars>>

\* lines 116-119: try normalize_cmd; on ExecutableNotFoundError take to_output().
B_Normalize ==
    /\ op = "cmd_output_b" /\ pc = "normalize"
    /\ \/ /\ \E n \in normalize_cmd(cmd) : cmd' = n
          /\ pc' = "popen"
          /\ UNCHANGED <<notfound, result>>
       \/ /\ notfound' = Some(to_output)
          /\ result' = Some(to_output)
          /\ pc' = "check"
          /\ UNCHANGED cmd
    /\ UNCHANGED <<callVars, procs, returned, raised, devnull, pty, calls, procVars, readVars, rmVars>>

\* lines 121-123: Popen, communicate, returncode.  Popen may itself fail.
B_Popen ==
    /\ op = "cmd_output_b" /\ pc = "popen"
    /\ \/ /\ procs' = procs + 1
          /\ \E rc \in ExitCodes, out \in PipeOut, err \in PipeErr :
                result' = Some(<<rc, out, err>>)
          /\ pc' = "check"
          /\ UNCHANGED raised
       \/ /\ raised' = Exc("OSError", <<"Popen">>)
          /\ pc' = "done"
          /\ UNCHANGED <<procs, result>>
    /\ UNCHANGED <<callVars, cmd, notfound, returned, devnull, pty, calls, procVars, readVars, rmVars>>

\* B_Check with returncode and retcode passed to CalledProcessError in each
\* other's place.
B_Check_SwapsCodes ==
    /\ op = "cmd_output_b" /\ pc = "check"
    /\ LET r == CHOOSE x \in result : TRUE
       IN  IF retcode # None /\ retcode # Some(r[1])
           THEN /\ raised' = Exc("CalledProcessError",
                                 <<CHOOSE x \in retcode : TRUE, cmd, Some(r[1]), r[2], r[3]>>)
                /\ UNCHANGED returned
           ELSE /\ returned' = Some(r)
                /\ UNCHANGED raised
    /\ pc' = "done"
    /\ UNCHANGED <<callVars, cmd, notfound, result, procs, devnull, pty, calls, procVars, readVars, rmVars>>

\* B_Check without the test "retcode is not None".
B_Check_NoNoneTest ==
    /\ op = "cmd_output_b" /\ pc = "check"
    /\ LET r == CHOOSE x \in result : TRUE
       IN  IF retcode # Some(r[1])
           THEN /\ raised' = Exc("CalledProcessError", <<r[1], cmd, retcode, r[2], r[3]>>)
                /\ UNCHANGED returned
           ELSE /\ returned' = Some(r)
                /\ UNCHANGED raised
    /\ pc' = "done"
    /\ UNCHANGED <<callVars, cmd, notfound, result, procs, devnull, pty, calls, procVars, readVars, rmVars>>

\* lines 125-128: the exit-code check and the return.
B_Check ==
    /\ op = "cmd_output_b" /\ pc = "check"
    /\ LET r == CHOOSE x \in result : TRUE
       IN  IF retcode # None /\ retcode # Some(r[1])
           THEN /\ raised' = Exc("CalledProcessError",
                                 <<r[1], cmd, retcode, r[2], r[3]>>)
                /\ UNCHANGED returned
           ELSE /\ returned' = Some(r)
                /\ UNCHANGED raised
    /\ pc' = "done"
    /\ UNCHANGED <<callVars, cmd, notfound, result, procs, devnull, pty, calls, procVars, readVars, rmVars>>

cmd_output_b == B_Normalize \/ B_Popen \/ B_Check

\* --------------------------------------------------------------------- Pty
\* Pty.__init__ (lines 143-145): both ends None; no descriptor exists yet.
\* open is the set of pty descriptors the kernel has open for this process,
\* closeLog the order in which os.close was called on them.
NewPty == [r |-> None, w |-> None, open |-> {}, closeLog |-> <<>>, err |-> "none"]

\* os.close(fd): closing a descriptor that is not open is EBADF.
os_close(s, fd) ==
    IF fd \in s.open
    THEN [s EXCEPT !.open = @ \ {fd}, !.closeLog = Append(@, fd)]
    ELSE [s EXCEPT !.err = "OSError"]

\* Pty.__enter__ (lines 147-156): the possible outcomes, each the object
\* after the call and the exception raised ("none" when it returns self).
Pty_enter(s) ==
    LET opened == [s EXCEPT !.r = Some("master"), !.w = Some("slave"),
                            !.open = {"master", "slave"}]
    IN  { [s |-> s, exc |-> "OSError"],            \* openpty() failed
          [s |-> opened, exc |-> "termios.error"], \* tcgetattr / tcsetattr failed
          [s |-> opened, exc |-> "none"] }

\* close_w without the test "self.w is not None": os.close(None) is a TypeError.
Pty_close_w_Unguarded(s) ==
    IF s.w # None
    THEN [os_close(s, CHOOSE fd \in s.w : TRUE) EXCEPT !.w = None]
    ELSE [s EXCEPT !.err = "TypeError"]

\* Pty.close_w (lines 158-161).
Pty_close_w(s) ==
    IF s.w # None
    THEN [os_close(s, CHOOSE fd \in s.w : TRUE) EXCEPT !.w = None]
    ELSE s

\* Pty.close_r (lines 163-166).
Pty_close_r(s) ==
    IF s.r = None
    THEN [s EXCEPT !.err = "AssertionError"]
    ELSE [os_close(s, CHOOSE fd \in s.r : TRUE) EXCEPT !.r = None]

\* Pty.__exit__ (lines 168-175): close_w(), then close_r().
Pty_exit(s) ==
    LET s1 == Pty_close_w(s)
    IN  IF s1.err # "none" THEN s1 ELSE Pty_close_r(s1)

\* ------------------------------------------------------------ cmd_output_p
\* P_Normalize without the early return: the not-found result is kept and the
\* call goes on to the with block.
P_Normalize_FallsThrough ==
    /\ op = "cmd_output_p" /\ pc = "normalize"
    /\ \/ /\ \E n \in normalize_cmd(cmd) : cmd' = n
          /\ UNCHANGED notfound
       \/ /\ notfound' = Some(to_output)
          /\ UNCHANGED cmd
    /\ pc' = "open_devnull"
    /\ UNCHANGED <<callVars, result, procs, returned, raised, devnull, pty, calls, procVars,
                   readVars, rmVars>>

\* lines 186-189: on ExecutableNotFoundError return e.to_output() at once.
P_Normalize ==
    /\ op = "cmd_output_p" /\ pc = "normalize"
    /\ \/ /\ \E n \in normalize_cmd(cmd) : cmd' = n
          /\ pc' = "open_devnull"
          /\ UNCHANGED <<notfound, returned>>
       \/ /\ notfound' = Some(to_output)
          /\ returned' = Some(to_output)
          /\ pc' = "done"
          /\ UNCHANGED cmd
    /\ UNCHANGED <<callVars, result, procs, raised, devnull, pty, calls, procVars, readVars, rmVars>>

\* line 191, first context manager: open(os.devnull).
P_OpenDevnull ==
    /\ op = "cmd_output_p" /\ pc = "open_devnull"
    /\ devnull' = "open"
    /\ pc' = "pty_enter"
    /\ UNCHANGED <<callVars, cmd, notfound, result, procs, returned, raised, pty, calls,
                   procVars, readVars, rmVars>>

\* line 191, second context manager: Pty().__enter__().  When __enter__
\* raises, the with statement does not call Pty.__exit__; devnull, already
\* entered, is closed.
P_PtyEnter ==
    /\ op = "cmd_output_p" /\ pc = "pty_enter"
    /\ \E o \in Pty_enter(pty) :
          /\ pty' = o.s
          /\ IF o.exc = "none"
             THEN pc' = "popen" /\ UNCHANGED <<raised, devnull>>
             ELSE /\ raised' = Exc(o.exc, <<"Pty.__enter__">>)
                  /\ devnull' = "closed"
                  /\ pc' = "done"
    /\ UNCHANGED <<callVars, cmd, notfound, result, procs, returned, calls, procVars, readVars, rmVars>>

\* Leaving the with block of line 191 with the exception pending (NoExc on
\* a normal exit): Pty.__exit__, then devnull is closed.  An exception of
\* __exit__ replaces the pending one.
WithExit(pending, nextpc) ==
    /\ pty' = Pty_exit(pty)
    /\ devnull' = "closed"
    /\ LET e == IF pty'.err # "none" THEN Exc(pty'.err, <<"Pty.__exit__">>) ELSE pending
       IN  raised' = e /\ pc' = IF e.type = "none" THEN nextpc ELSE "done"

\* lines 193-194: Popen with stdout and stderr on pty.w.  A failure leaves
\* the with block through Pty.__exit__.
P_Popen ==
    /\ op = "cmd_output_p" /\ pc = "popen"
    /\ \/ /\ procs' = procs + 1
          /\ \E out \in SeqsUpTo(Bytes, MaxOut), code \in ExitCodes :
                child' = [state |-> "running", out |-> out, code |-> code]
          /\ pc' = "close_w"
          /\ UNCHANGED <<raised, pty, devnull>>
       \/ /\ WithExit(Exc("OSError", <<"Popen">>), "done")
          /\ UNCHANGED <<procs, child>>
    /\ UNCHANGED <<callVars, cmd, notfound, result, returned, calls, ptybuf, written, readVars, rmVars>>

\* P_CloseW without the call of pty.close_w().
P_CloseW_Skipped ==
    /\ op = "cmd_output_p" /\ pc = "close_w"
    /\ buf' = <<>>
    /\ pc' = "read"
    /\ UNCHANGED <<callVars, cmd, notfound, result, procs, returned, raised, devnull, pty,
                   calls, procVars, delivered, lastRead, rmVars>>

\* lines 195-197: pty.close_w(); buf = b''.
P_CloseW ==
    /\ op = "cmd_output_p" /\ pc = "close_w"
    /\ pty' = Pty_close_w(pty)
    /\ buf' = <<>>
    /\ pc' = "read"
    /\ UNCHANGED <<callVars, cmd, notfound, result, procs, returned, raised, devnull, calls,
                   procVars, delivered, lastRead, rmVars>>

\* The write side of the pty is held open by the child while it runs and by
\* this process while its own copy of the slave descriptor is open.
WritersOpen == child.state = "running" \/ "slave" \in pty.open

Min(a, b) == IF a < b THEN a ELSE b
Take(s, k) == SubSeq(s, 1, k)
Drop(s, k) == SubSeq(s, k + 1, Len(s))

\* buf = bts in place of buf += bts.
Accumulate_Overwrites(b, bts) == bts

\* line 207: buf += bts.
Accumulate(b, bts) == b \o bts

\* lines 198-209, one iteration of the read loop.  os.read blocks while the
\* pty is empty and a writer is open.  Leaving the loop leaves the with block
\* (Pty.__exit__, devnull closed).
P_Read ==
    /\ op = "cmd_output_p" /\ pc = "read"
    /\ \/ \* data available: os.read returns between 1 and 4096 bytes
          /\ ptybuf # <<>>
          /\ \E k \in 1..Min(ReadSize, Len(ptybuf)) :
                /\ buf' = Accumulate(buf, Take(ptybuf, k))
                /\ delivered' = Append(delivered, Take(ptybuf, k))
                /\ ptybuf' = Drop(ptybuf, k)
          /\ lastRead' = "data"
          /\ UNCHANGED <<pc, raised, pty, devnull>>
       \/ \* hung-up terminal, the platform returns b'': buf += b'', break
          /\ ptybuf = <<>> /\ ~WritersOpen /\ env.hangup = "eof"
          /\ buf' = Accumulate(buf, <<>>)
          /\ delivered' = Append(delivered, <<>>)
          /\ lastRead' = "eof"
          /\ WithExit(NoExc, "wait")
          /\ UNCHANGED ptybuf
       \/ \* hung-up terminal, the platform raises OSError(EIO): bts = b'', break
          /\ ptybuf = <<>> /\ ~WritersOpen /\ env.hangup = "eio"
          /\ lastRead' = "EIO"
          /\ WithExit(NoExc, "wait")
          /\ UNCHANGED <<ptybuf, buf, delivered>>
       \/ \* any other OSError: re-raised
          /\ env.readfail
          /\ lastRead' = "EBADF"
          /\ WithExit(Exc("OSError", <<"EBADF">>), "done")
          /\ UNCHANGED <<ptybuf, buf, delivered>>
    /\ UNCHANGED <<callVars, cmd, notfound, result, procs, returned, calls, child, written, rmVars>>

\* line 211: return proc.wait(), buf, None.  wait blocks until the child exits.
P_Wait ==
    /\ op = "cmd_output_p" /\ pc = "wait"
    /\ child.state = "exited"
    /\ returned' = Some(<<child.code, buf, None>>)
    /\ pc' = "done"
    /\ UNCHANGED <<callVars, cmd, notfound, result, procs, raised, devnull, pty, calls,
                   procVars, readVars, rmVars>>

cmd_output_p == P_Normalize \/ P_OpenDevnull \/ P_PtyEnter \/ P_Popen \/ P_CloseW
                \/ P_Read \/ P_Wait

\* ---------------------------------------------------------- the child process
\* The child writes its output to the pty (stdout and stderr are both pty.w).
ChildWrite ==
    /\ child.state = "running" /\ child.out # <<>>
    /\ \E k \in 1..Len(child.out) :
          /\ ptybuf' = ptybuf \o Take(child.out, k)
          /\ written' = written \o Take(child.out, k)
          /\ child' = [child EXCEPT !.out = Drop(@, k)]
    /\ UNCHANGED <<callVars, pc, cmd, notfound, result, procs, returned, raised, devnull,
                   pty, calls, readVars, rmVars>>

\* The child exits; its copies of the slave descriptor are closed.
ChildExit ==
    /\ child.state = "running" /\ child.out = <<>>
    /\ child' = [child EXCEPT !.state = "exited"]
    /\ UNCHANGED <<callVars, pc, cmd, notfound, result, procs, returned, raised, devnull,
                   pty, calls, ptybuf, written, readVars, rmVars>>

\* ------------------------------------------------------------- a Pty scope
\* with Pty() as pty: a body that calls close_w and close_r in any order.
S_Enter ==
    /\ op = "Pty" /\ pc = "pty_enter"
    /\ \E o \in Pty_enter(pty) :
          /\ pty' = o.s
          /\ IF o.exc = "none"
             THEN pc' = "body" /\ UNCHANGED raised
             ELSE raised' = Exc(o.exc, <<"Pty.__enter__">>) /\ pc' = "done"
    /\ UNCHANGED <<callVars, cmd, notfound, result, procs, returned, devnull, calls,
                   procVars, readVars, rmVars>>

\* One method call of the body.  A call that raises ends the body.
S_Call ==
    /\ op = "Pty" /\ pc = "body"
    /\ Len(calls) < MaxCalls
    /\ \E m \in {"close_w", "close_r"} :
          /\ calls' = Append(calls, m)
          /\ pty' = IF m = "close_w" THEN Pty_close_w(pty) ELSE Pty_close_r(pty)
    /\ pc' = IF pty'.err = "none" THEN "body" ELSE "exit"
    /\ UNCHANGED <<callVars, cmd, notfound, result, procs, returned, raised, devnull,
                   procVars, readVars, rmVars>>

\* Leaving the scope: Pty.__exit__.  An exception of __exit__ replaces the
\* one the body raised.
S_Exit ==
    /\ op = "Pty" /\ pc \in {"body", "exit"}
    /\ calls' = calls \o <<"__exit__">>
    /\ LET s == Pty_exit([pty EXCEPT !.err = "none"])
       IN  /\ pty' = [s EXCEPT !.err = IF s.err # "none" THEN s.err ELSE pty.err]
           /\ IF pty'.err = "none"
              THEN returned' = Some(<<>>) /\ UNCHANGED raised
              ELSE raised' = Exc(pty'.err, <<>>) /\ UNCHANGED returned
    /\ pc' = "done"
    /\ UNCHANGED <<callVars, cmd, notfound, result, procs, devnull, procVars, readVars, rmVars>>

PtyScope == S_Enter \/ S_Call \/ S_Exit

\* ------------------------------------------------------------------ rmtree
\* Paths are tuples of names: Top is the directory handed to rmtree, File(i)
\* a file in it, dirname drops the last name.
Top == <<"d">>
File(i) == <<"d", i>>
dirname(p) == SubSeq(p, 1, Len(p) - 1)
Tree(n) == {Top} \cup {File(i) : i \in 1..n}

Errnos == {"EACCES", "EPERM", "ENOENT"}
Call(func, path, res) == [func |-> func, path |-> path, res |-> res]

\* shutil.rmtree(path) on a directory of n files: scandir, unlink each entry,
\* rmdir; each is a call that can fail and then goes to onerror.
RmtreeOps(n) ==
    <<[func |-> "scandir", path |-> Top]>>
    \o [i \in 1..n |-> [func |-> "unlink", path |-> File(i)]]
    \o <<[func |-> "rmdir", path |-> Top]>>

\* The handler without the test of excvalue.errno: every failure of a remove
\* operation is retried.
handle_remove_readonly_AnyErrno(func, path, errno) ==
    IF func \in {"rmdir", "remove", "unlink"}
    THEN   { [calls |-> <<Call("chmod", path, e)>>, raises |-> "new"] : e \in Errnos }
      \cup { [calls |-> <<Call("chmod", path, "ok"), Call("chmod", dirname(path), e)>>,
              raises |-> "new"] : e \in Errnos }
      \cup { [calls |-> <<Call("chmod", path, "ok"), Call("chmod", dirname(path), "ok"),
                          Call(func, path, e)>>,
              raises |-> IF e = "ok" THEN "none" ELSE "new"] : e \in {"ok"} \cup Errnos }
    ELSE { [calls |-> <<>>, raises |-> "original"] }

\* handle_remove_readonly(func, path, exc) (lines 218-232): the ways the
\* handler can run, each the file-system calls it makes with their results
\* and the exception that leaves it: "none", "original" (the bare raise),
\* or "new" (an OSError of a call the handler made).
handle_remove_readonly(func, path, errno) ==
    IF func \in {"rmdir", "remove", "unlink"} /\ errno = "EACCES"
    THEN   { [calls |-> <<Call("chmod", path, e)>>, raises |-> "new"] : e \in Errnos }
      \cup { [calls |-> <<Call("chmod", path, "ok"), Call("chmod", dirname(path), e)>>,
              raises |-> "new"] : e \in Errnos }
      \cup { [calls |-> <<Call("chmod", path, "ok"), Call("chmod", dirname(path), "ok"),
                          Call(func, path, e)>>,
              raises |-> IF e = "ok" THEN "none" ELSE "new"] : e \in {"ok"} \cup Errnos }
    ELSE { [calls |-> <<>>, raises |-> "original"] }

\* The effect of one file-system call on the file system.
Apply(f, c) ==
    IF c.res # "ok" THEN f
    ELSE IF c.func \in {"unlink", "remove", "rmdir"} THEN [f EXCEPT !.exists = @ \ {c.path}]
    ELSE IF c.func = "chmod" THEN [f EXCEPT !.readonly = @ \ {c.path}]
    ELSE f

RECURSIVE ApplyAll(_, _)
ApplyAll(f, cs) == IF cs = <<>> THEN f ELSE ApplyAll(Apply(f, Head(cs)), Tail(cs))

\* clean_path_on_failure without the final raise: the error is swallowed.
RmtreeReturns_Swallows == returned' = Some(<<>>) /\ UNCHANGED raised

\* How the call that runs rmtree ends when rmtree returns.
RmtreeReturns ==
    IF op = "clean_path_on_failure"
    THEN raised' = scopeErr /\ UNCHANGED returned      \* line 40: raise
    ELSE returned' = Some(<<>>) /\ UNCHANGED raised

\* line 233, one operation of shutil.rmtree with its onerror handler.
RM_Step ==
    /\ pc = "rmtree" /\ todo # <<>>
    /\ LET o == Head(todo)
       IN  \E res \in {"ok"} \cup Errnos :
             LET first == Call(o.func, o.path, res)
             IN  IF res = "ok"
                 THEN /\ fs' = Apply(fs, first)
                      /\ oslog' = Append(oslog, first)
                      /\ todo' = Tail(todo)
                      /\ pc' = "rmtree"
                      /\ UNCHANGED <<raised, returned>>
                 ELSE \E h \in handle_remove_readonly(o.func, o.path, res) :
                      /\ fs' = ApplyAll(fs, h.calls)
                      /\ oslog' = Append(oslog, first) \o h.calls
                      /\ IF h.raises = "none"
                         THEN /\ todo' = Tail(todo)
                              /\ pc' = "rmtree"
                              /\ UNCHANGED <<raised, returned>>
                         ELSE /\ raised' = Exc("OSError",
                                               <<h.raises, oslog'[Len(oslog')]>>)
                              /\ pc' = "done"
                              /\ UNCHANGED <<todo, returned>>
    /\ UNCHANGED <<callVars, runVars, scopeErr>>

\* shutil.rmtree returns.
RM_Return ==
    /\ pc = "rmtree" /\ todo = <<>>
    /\ RmtreeReturns
    /\ pc' = "done"
    /\ UNCHANGED <<callVars, runVars, rmVars>>

rmtree == RM_Step \/ RM_Return

\* --------------------------------------------------- clean_path_on_failure
ScopeErrors == {Exc("ValueError", <<>>), Exc("KeyboardInterrupt", <<>>)}

\* lines 35-40: the wrapped scope ends; on an exception, rmtree(path) if the
\* path exists, then raise.
C_Scope ==
    /\ op = "clean_path_on_failure" /\ pc = "scope"
    /\ \/ /\ returned' = Some(<<>>)
          /\ pc' = "done"
          /\ UNCHANGED <<raised, scopeErr>>
       \/ \E e \in ScopeErrors :
          /\ scopeErr' = e
          /\ IF Top \in fs.exists
             THEN pc' = "rmtree" /\ UNCHANGED raised
             ELSE pc' = "done" /\ raised' = e
          /\ UNCHANGED returned
    /\ UNCHANGED <<callVars, runVars, fs, todo, oslog>>

\* ------------------------------------------------------------------- model
Envs == [hangup : {"eof", "eio"}, readfail : BOOLEAN]
NoEnv == [hangup |-> "eof", readfail |-> FALSE]
NoChild == [state |-> "none", out |-> <<>>, code |-> 0]

InitB ==
    /\ op = "cmd_output_b" /\ pc = "normalize"
    /\ argv \in Argvs /\ retcode \in Retcodes /\ env = NoEnv

\* cmd_output_p asserts retcode is None (line 182).
InitP ==
    /\ op = "cmd_output_p" /\ pc = "normalize"
    /\ argv \in Argvs /\ retcode = None /\ env \in Envs

InitPty ==
    /\ op = "Pty" /\ pc = "pty_enter"
    /\ argv = <<>> /\ retcode = None /\ env = NoEnv

\* rmtree(Top) on a directory of n files, any of the paths read-only.
InitRm ==
    /\ op = "rmtree" /\ pc = "rmtree"
    /\ argv = <<>> /\ retcode = None /\ env = NoEnv
    /\ \E n \in 0..MaxFiles :
          /\ fs \in [exists : {Tree(n)}, readonly : SUBSET (Tree(n) \cup {dirname(Top)})]
          /\ todo = RmtreeOps(n)

\* clean_path_on_failure(Top): the path exists (with n files) or does not.
InitClean ==
    /\ op = "clean_path_on_failure" /\ pc = "scope"
    /\ argv = <<>> /\ retcode = None /\ env = NoEnv
    /\ \/ fs = [exists |-> {}, readonly |-> {}] /\ todo = <<>>
       \/ \E n \in 0..MaxFiles :
             /\ fs \in [exists : {Tree(n)}, readonly : SUBSET Tree(n)]
             /\ todo = RmtreeOps(n)

Init ==
    /\ \/ (InitB \/ InitP \/ InitPty) /\ fs = [exists |-> {}, readonly |-> {}] /\ todo = <<>>
       \/ InitRm
       \/ InitClean
    /\ oslog = <<>> /\ scopeErr = NoExc
    /\ fs0 = fs /\ lastRead = "none"
    /\ cmd = argv
    /\ notfound = None /\ result = None /\ procs = 0
    /\ returned = None /\ raised = NoExc
    /\ devnull = "unopened" /\ pty = NewPty /\ calls = <<>>
    /\ child = NoChild /\ ptybuf = <<>> /\ written = <<>>
    /\ buf = <<>> /\ delivered = <<>>

Next == cmd_output_b \/ cmd_output_p \/ ChildWrite \/ ChildExit \/ PtyScope
        \/ rmtree \/ C_Scope

Spec == Init /\ [][Next]_vars

\* The runner's own steps are taken as long as they are enabled: the call
\* runs in one blocking thread that is never suspended for ever.
FairSpec == Spec /\ WF_vars(cmd_output_p)

\* ================================================================== claims
Done == pc = "done"
CalledProcessError(returncode, c, expected, stdout, stderr) ==
    Exc("CalledProcessError", <<returncode, c, expected, stdout, stderr>>)
IsCalledProcessError == raised.type = "CalledProcessError"
TheResult == CHOOSE r \in result : TRUE

\* ---------------------------------------------------------------------- C1
\* C1 as stated: in cmd_output_b, when the resolver reports "executable not
\* found", no process is spawned and the synthesized triple is returned
\* normally, never raised, whatever retcode is (the default 0 included).
C1_NotFoundAlwaysReturned ==
    (op = "cmd_output_b" /\ notfound # None) =>
        /\ procs = 0
        /\ raised = NoExc
        /\ Done => returned = notfound

\* C1 amended: in cmd_output_b, when the resolver reports "executable not
\* found", no process is spawned and the synthesized triple, whose exit code
\* is not 0, is what the call ends with: returned normally when retcode is
\* None or equals that exit code, and otherwise (the default retcode 0
\* included) carried by a raised CalledProcessError.
C1_NotFoundNeverSpawns ==
    (op = "cmd_output_b" /\ notfound # None) =>
        /\ procs = 0
        /\ notfound = Some(to_output) /\ to_output[1] # 0
        /\ Done =>
             IF retcode = None \/ retcode = Some(to_output[1])
             THEN returned = notfound /\ raised = NoExc
             ELSE /\ returned = None
                  /\ IsCalledProcessError
                  /\ raised = CalledProcessError(to_output[1], argv, retcode,
                                                 to_output[2], to_output[3])

\* A not-found call with the default retcode 0 has ended.
C1_Witness ==
    /\ op = "cmd_output_b" /\ notfound # None /\ Done
    /\ retcode = Some(0) /\ IsCalledProcessError

\* ---------------------------------------------------------------------- C2
Mismatch == result # None /\ retcode # None /\ retcode # Some(TheResult[1])

\* C2 as stated: when retcode is set and differs from the actual exit code,
\* cmd_output_b raises a CalledProcessError whose cmd is the command vector
\* of the invocation and whose other fields are the actual exit code, the
\* expectation and the captured stdout and stderr.
C2_ErrorCarriesInvocation ==
    (op = "cmd_output_b" /\ Done /\ Mismatch) =>
        /\ IsCalledProcessError
        /\ raised = CalledProcessError(TheResult[1], argv, retcode,
                                       TheResult[2], TheResult[3])

\* C2 amended: as stated, except that the cmd field is the vector
\* normalize_cmd returned when a process was spawned (it is the caller's
\* vector only when the result was synthesized from a resolution failure).
C2_ErrorCarriesResolvedCmd ==
    (op = "cmd_output_b" /\ Done /\ Mismatch) =>
        /\ returned = None
        /\ IsCalledProcessError
        /\ raised = CalledProcessError(TheResult[1], cmd, retcode,
                                       TheResult[2], TheResult[3])
        /\ IF notfound # None
           THEN cmd = argv /\ procs = 0
           ELSE cmd \in normalize_cmd(argv) /\ procs = 1

\* A spawned process ended with an exit code other than the expected one,
\* and normalize_cmd had changed the command vector.
C2_Witness ==
    /\ op = "cmd_output_b" /\ Done /\ Mismatch
    /\ procs = 1 /\ cmd # argv /\ IsCalledProcessError

\* ---------------------------------------------------------------------- C3
\* C3: with retcode None, cmd_output_b never raises CalledProcessError and
\* returns the actual (exit code, stdout, stderr), whatever the exit code.
C3_NoExpectationNeverRaises ==
    (op = "cmd_output_b" /\ retcode = None) =>
        /\ ~IsCalledProcessError
        /\ (Done /\ result # None) => (returned = result /\ raised = NoExc)

\* A call with retcode None has returned a non-zero exit code of a process.
C3_Witness ==
    /\ op = "cmd_output_b" /\ retcode = None /\ Done
    /\ procs = 1 /\ result # None /\ TheResult[1] # 0 /\ returned = result

\* ---------------------------------------------------------------------- C8
\* C8: in cmd_output_p, when the resolver reports "executable not found",
\* the call returns the synthesized result at once: no pty is allocated,
\* os.devnull is not opened and no process is spawned.
C8_NotFoundReturnsAtOnce ==
    (op = "cmd_output_p" /\ notfound # None) =>
        /\ Done /\ returned = Some(to_output) /\ raised = NoExc
        /\ pty = NewPty /\ devnull = "unopened" /\ procs = 0

\* A pty-mode call ended on a resolution failure.
C8_Witness == op = "cmd_output_p" /\ notfound # None /\ Done /\ returned # None

\* ---------------------------------------------------------------------- C4
PtyObtained == pty.open # {} \/ pty.closeLog # <<>>

\* C4: once a Pty has obtained its two descriptors, every way out of
\* cmd_output_p (return, Popen failure, read error, termios failure in
\* __enter__) ends with both closed, the write end first, each exactly once.
C4_EveryExitClosesBoth ==
    (op = "cmd_output_p" /\ Done /\ PtyObtained) =>
        /\ pty.open = {}
        /\ pty.closeLog = <<"slave", "master">>

\* ---------------------------------------------------------------------- C5
LastCall == calls'[Len(calls')]
DescriptorsOf(s) == <<s.r, s.w, s.open, s.closeLog>>

\* C5 as stated: in a Pty scope, closing an end that is already closed is a
\* no-op and raises nothing, for close_w and close_r alike, the two closes of
\* __exit__ included.
C5_CloseIsIdempotent ==
    [][(op = "Pty" /\ calls' # calls) =>
          /\ (LastCall = "close_w" /\ pty.w = None) => pty' = pty
          /\ (LastCall = "close_r" /\ pty.r = None) => pty' = pty
          /\ (LastCall = "__exit__") => pty'.err = "none"]_vars

\* C5 amended: close_w on an already closed write end is a no-op and raises
\* nothing, also when __exit__ performs it; close_r on an already closed read
\* end raises (an assertion failure) and closes nothing, so __exit__ raises
\* nothing exactly when close_r was not called inside the scope.
C5_OnlyCloseWIsIdempotent ==
    [][(op = "Pty" /\ calls' # calls) =>
          /\ (LastCall = "close_w" /\ pty.w = None) => pty' = pty
          /\ (LastCall = "close_r" /\ pty.r = None) =>
                (pty'.err = "AssertionError" /\ DescriptorsOf(pty') = DescriptorsOf(pty))
          /\ (LastCall = "__exit__") =>
                /\ pty'.err = (IF pty.r = None THEN "AssertionError" ELSE "none")
                /\ pty'.w = None /\ "slave" \notin pty'.open
                /\ pty.w = None => pty'.closeLog \in {pty.closeLog, Append(pty.closeLog, "master")}]_vars

\* The write end was closed twice inside the scope and the scope was left
\* without an error.
C5_Witness ==
    /\ op = "Pty" /\ Done /\ returned # None
    /\ Len(calls) = 3 /\ calls[1] = "close_w" /\ calls[2] = "close_w"

\* ---------------------------------------------------------------------- C6
CleanDone == op = "clean_path_on_failure" /\ Done
ScopeFailed == scopeErr # NoExc
LastLogged == oslog[Len(oslog)]

\* C6 as stated: if the scope exits via an error and the path exists, then
\* afterwards the path does not exist and the caller gets the scope's error
\* unchanged, also when the removal meets a failure; on a normal exit nothing
\* is removed.
C6_AlwaysOriginalError ==
    CleanDone =>
        /\ (ScopeFailed /\ Top \in fs0.exists) => (Top \notin fs.exists /\ raised = scopeErr)
        /\ ~ScopeFailed => (fs = fs0 /\ oslog = <<>> /\ returned # None)

\* C6 amended: if the scope exits via an error and the path exists, the
\* guard runs the forced removal; when the removal completes (a retried
\* permission failure included) the path no longer exists and the caller gets
\* the scope's error unchanged; when the removal itself fails with an error
\* that propagates, the caller gets that removal error and the path is still
\* there.  If the path does not exist the scope's error is re-raised and
\* nothing is touched; on a normal exit nothing is removed.
C6_OriginalErrorUnlessRemovalFails ==
    CleanDone =>
        /\ (ScopeFailed /\ Top \in fs0.exists) =>
              /\ oslog # <<>>
              /\ IF LastLogged.res = "ok"
                 THEN fs.exists = {} /\ raised = scopeErr /\ returned = None
                 ELSE /\ Top \in fs.exists
                      /\ raised.type = "OSError" /\ raised # scopeErr
                      /\ raised.args[2] = LastLogged
                      /\ returned = None
        /\ (ScopeFailed /\ Top \notin fs0.exists) =>
              (raised = scopeErr /\ fs = fs0 /\ oslog = <<>>)
        /\ ~ScopeFailed =>
              (fs = fs0 /\ oslog = <<>> /\ returned # None /\ raised = NoExc)

\* The scope failed, the tree was removed after a retried permission failure
\* and the scope's error was re-raised.
C6_Witness ==
    /\ CleanDone /\ ScopeFailed /\ Top \in fs0.exists /\ fs.exists = {}
    /\ raised = scopeErr
    /\ \E i \in 1..Len(oslog) : oslog[i].res = "EACCES"

\* ---------------------------------------------------------------------- C7
IsRemove(f) == f \in {"rmdir", "remove", "unlink"}
\* A call of the main loop is never preceded by a chmod; a retry always is.
IsRetry(i) == i > 1 /\ oslog[i].func # "chmod" /\ oslog[i - 1].func = "chmod"
IsFirstTry(i) == oslog[i].func # "chmod" /\ ~IsRetry(i)
PropagatesFrom(i, kind) ==
    i = Len(oslog) /\ Done /\ returned = None /\ raised = Exc("OSError", <<kind, oslog[i]>>)

\* C7: in rmtree, a remove, unlink or rmdir that fails with EACCES has the
\* read-only attribute cleared on its path and on the parent directory and is
\* retried once, after which the removal goes on; any other failure, a
\* failure of any other operation and a second failure of the retried
\* operation propagate; nothing is retried more than once.
C7_RetryOnceOnPermissionError ==
    (op \in {"rmtree", "clean_path_on_failure"}) =>
      \A i \in 1..Len(oslog) :
        LET c == oslog[i] IN
        \* a retry follows a permission failure of the same remove operation
        \* and the two chmods, and was not itself a retry
        /\ IsRetry(i) =>
              /\ i >= 4
              /\ oslog[i - 3] = Call(c.func, c.path, "EACCES")
              /\ IsRemove(c.func) /\ IsFirstTry(i - 3)
              /\ oslog[i - 2] = Call("chmod", c.path, "ok")
              /\ oslog[i - 1] = Call("chmod", dirname(c.path), "ok")
              /\ c.path \notin fs.readonly /\ dirname(c.path) \notin fs.readonly
              /\ Cardinality({j \in 1..Len(oslog) :
                              oslog[j].func = c.func /\ oslog[j].path = c.path}) = 2
        \* a failed first try: the handler starts on EACCES of a remove
        \* operation, and the failure propagates unchanged in every other case
        /\ (IsFirstTry(i) /\ c.res # "ok") =>
              IF IsRemove(c.func) /\ c.res = "EACCES"
              THEN /\ i < Len(oslog)
                   /\ oslog[i + 1].func = "chmod" /\ oslog[i + 1].path = c.path
                   /\ \/ PropagatesFrom(i + 1, "new")
                      \/ /\ i + 1 < Len(oslog) /\ oslog[i + 2].res # "ok"
                         /\ PropagatesFrom(i + 2, "new")
                      \/ i + 2 < Len(oslog) /\ IsRetry(i + 3)
              ELSE PropagatesFrom(i, "original")
        \* a failed chmod and a failed retry propagate
        /\ (~IsFirstTry(i) /\ c.res # "ok") => PropagatesFrom(i, "new")
        \* after a call that succeeded the removal goes on
        /\ (i = Len(oslog) /\ c.res = "ok" /\ c.func # "chmod") =>
              \/ pc = "rmtree" /\ raised = NoExc
              \/ Done /\ todo = <<>> /\ fs.exists = {}

\* rmtree returned after an unlink failed with EACCES and its retry succeeded.
C7_Witness ==
    /\ op = "rmtree" /\ Done /\ returned # None /\ fs.exists = {}
    /\ \E i \in 1..Len(oslog) : IsRetry(i) /\ oslog[i] = Call("unlink", File(1), "ok")

\* ---------------------------------------------------------------------- C9
PtyRunning == op = "cmd_output_p" /\ procs = 1

\* C9: in cmd_output_p the runner's copy of the write end is closed before
\* the first read, and so, once the child has exited, the loop reaches the
\* end of the stream and the call returns (exit code, buf, None).  The
\* liveness part is stated for runs in which no read fails with an error
\* other than EIO.
C9_CloseWThenEndOfStream ==
    /\ []((PtyRunning /\ (pc = "read" \/ lastRead # "none")) =>
            (pty.w = None /\ "slave" \notin pty.open))
    /\ (PtyRunning /\ child.state = "exited" /\ ~env.readfail)
          ~> (Done /\ raised = NoExc /\ returned = Some(<<child.code, buf, None>>))

\* The child exited, the loop ended on the hang-up and the call returned.
C9_Witness ==
    /\ PtyRunning /\ child.state = "exited" /\ Done
    /\ lastRead \in {"eof", "EIO"} /\ returned = Some(<<child.code, buf, None>>)

\* --------------------------------------------------------------------- C10
RECURSIVE Concat(_)
Concat(chunks) == IF chunks = <<>> THEN <<>> ELSE Head(chunks) \o Concat(Tail(chunks))

\* C10: the buffer cmd_output_p returns is the concatenation, in delivery
\* order, of the chunks read before the first empty read or EIO; EIO ends the
\* loop like an empty read, raising nothing and losing nothing; any other
\* read failure propagates and nothing is returned.
C10_BufferIsConcatenation ==
    (PtyRunning /\ pc \in {"read", "wait", "done"}) =>
        /\ buf = Concat(delivered)
        /\ Concat(delivered) \o ptybuf = written
        /\ lastRead \in {"eof", "EIO"} =>
              /\ pc \in {"wait", "done"} /\ raised = NoExc
              /\ buf = written
              /\ Done => returned = Some(<<child.code, Concat(delivered), None>>)
        /\ lastRead = "EBADF" =>
              (Done /\ returned = None /\ raised = Exc("OSError", <<"EBADF">>))
        /\ returned # None => lastRead \in {"eof", "EIO"}

\* Two chunks were read, the loop ended on EIO and the call returned.
C10_Witness ==
    /\ PtyRunning /\ Done /\ lastRead = "EIO"
    /\ Len(delivered) = 2 /\ returned = Some(<<child.code, written, None>>)
====
